---- MODULE Spec2Model ----
(***************************************************************************)
(* Model of app.py: the Flask relay with two endpoints on /prompt.         *)
(*   POST /prompt  create_prompt():  validate, three Gemini calls, INSERT  *)
(*   GET  /prompt  get_prompts():    validate, SELECT ... ORDER BY         *)
(* Each worker of the server runs one handler at a time, start to finish.  *)
(* A serial server (SpecSerial) has one worker; a threaded one            *)
(* (SpecThreaded) has NumWorkers, whose handlers interleave step by step.  *)
(* The prompts table, its SERIAL sequence and the database clock are the   *)
(* only state the handlers share.                                          *)
(***************************************************************************)
EXTENDS Integers, Sequences, FiniteSets, TLC

\* ---- bounds of the model ------------------------------------------------
NumWorkers == 2      \* workers of a threaded server: requests in progress at once
MaxRequests == 3     \* requests received over a behaviour
MaxClock == 1        \* the clock runs over 0..MaxClock

Workers == 1..NumWorkers

\* ---- values ---------------------------------------------------------------
\* Python's None.
NoneVal == "<None>"
\* Stands for "the call raised" where a returned value is expected.
RaiseVal == "<raise>"

\* The two required keys of the POST body (app.py line 118).
RequiredKeys == {"user_id", "query"}

\* (user_id, query) pairs carried by JSON object bodies.
FieldPairs == { <<"u1", "hello">>, <<"", "">> }

\* What request.json yields: null, a JSON object, or a JSON array of strings.
\* keys is the set of keys of the object (the elements of the array): Python's
\* "k in data" tests exactly membership in it.
NullBody == [kind |-> "null", keys |-> {}, user_id |-> NoneVal, query |-> NoneVal]

ObjectBodies ==
    { [kind |-> "object", keys |-> RequiredKeys, user_id |-> p[1], query |-> p[2]] : p \in FieldPairs }
    \cup { [kind |-> "object", keys |-> {}, user_id |-> NoneVal, query |-> NoneVal],
           [kind |-> "object", keys |-> {"user_id"}, user_id |-> "u1", query |-> NoneVal],
           [kind |-> "object", keys |-> {"query"}, user_id |-> NoneVal, query |-> "hello"] }

ArrayBodies ==
    { [kind |-> "array", keys |-> RequiredKeys, user_id |-> NoneVal, query |-> NoneVal] }

Bodies == {NullBody} \cup ObjectBodies \cup ArrayBodies

\* request.args.get('user_id'): None when the parameter is absent.
UserIdArgs == {NoneVal, "", "u1"}

\* The text the provider generates for a prompt, when it generates one: a
\* different text for each instruction prefix.
Generated(prompt) ==
    IF prompt = "Respond in a casual and creative way" THEN "Hi!"
    ELSE IF prompt = "Provide a formal response shortly" THEN "Hello."
    ELSE "Hi there."

\* What one requests.post exchange can produce (app.py lines 96-104): a
\* transport exception, a non-200 status, a 200 whose body lacks the expected
\* fields, a 200 with an empty text, a 200 with the generated text.
Outcomes(prompt) ==
    { [kind |-> "exception", status |-> 0, shape |-> "none", text |-> NoneVal],
      [kind |-> "response", status |-> 500, shape |-> "wellformed", text |-> Generated(prompt)],
      [kind |-> "response", status |-> 200, shape |-> "malformed", text |-> NoneVal],
      [kind |-> "response", status |-> 200, shape |-> "wellformed", text |-> ""],
      [kind |-> "response", status |-> 200, shape |-> "wellformed", text |-> Generated(prompt)] }

\* The style tags create_prompt passes, in call order (lines 122-124).
Styles == <<"casual", "formal", "both">>

\* ---- state ----------------------------------------------------------------
VARIABLES
    pool,      \* number of workers serving requests (fixed at start)
    handler,   \* handler[w]: the request worker w is handling, see IdleFrame
    table,     \* prompts table: rows in insertion order, committed or pending
    seq,       \* last value handed out by the SERIAL sequence of prompts.id
    now,       \* CURRENT_TIMESTAMP
    nreq,      \* requests received so far
    ncommits   \* INSERT transactions committed so far

vars == <<pool, handler, table, seq, now, nreq, ncommits>>

NoReq == [method |-> "none", data |-> NullBody, user_id |-> NoneVal]

NoResp == [status |-> 0, error |-> NoneVal, handled |-> TRUE, id |-> 0,
           casual_response |-> NoneVal, formal_response |-> NoneVal,
           blended_response |-> NoneVal, prompts |-> <<>>]

\* The state of one handler invocation:
\*   pc       where the handler stands ("idle" before the first request)
\*   req      the request; rid its number in arrival order
\*   calls    the generation calls the request has issued
\*   results  what get_gemini_response returned, per call
\*   conn     "none" | "open" | "closed": the request's storage connection
\*   cur      the rows held by the request's cursor
\*   snap     the committed rows the request's SELECT ran against
\*   resp     the response sent
IdleFrame ==
    [pc |-> "idle", req |-> NoReq, rid |-> 0, calls |-> <<>>, results |-> <<>>,
     conn |-> "none", cur |-> <<>>, snap |-> <<>>, resp |-> NoResp]

\* ---- pure parts of the code -------------------------------------------------
\* Python truth value of the parsed body: None, {} and [] are falsy.
Truthy(data) == data.kind # "null" /\ data.keys # {}

\* all(k in data for k in ['user_id', 'query'])
HasRequiredKeys_Any(data) == \E k \in RequiredKeys : k \in data.keys
HasRequiredKeys(data) == \A k \in RequiredKeys : k \in data.keys

\* The guard of line 118: "not data or not all(...)".
MissingFields(data) == ~Truthy(data) \/ ~HasRequiredKeys(data)

\* data['query'] and data['user_id'] only work on a dict; on a list they raise
\* TypeError.
Subscriptable(data) == data.kind = "object"

\* Python's "not v" for a value that is None or a string.
Not_OnlyNone(v) == v = NoneVal
Not(v) == v = NoneVal \/ v = ""

\* The instruction prefix chosen for a style tag (lines 81-86).
PromptFor(style) ==
    IF style = "casual" THEN "Respond in a casual and creative way"
    ELSE IF style = "formal" THEN "Provide a formal response shortly"
    ELSE "Respond as a blend of both casual and formal styles"

\* The call as sent: the payload text is "<prompt> to this query: <query>".
Payload(query, style) == [style |-> style, prompt |-> PromptFor(style), query |-> query]

\* What get_gemini_response returns for one exchange (lines 96-110): the text
\* on a 200 with the expected shape, None otherwise; a missing field raises
\* inside the try and is turned into None by "except Exception".
get_gemini_response_Raising(outcome) ==
    IF outcome.kind = "exception" THEN NoneVal
    ELSE IF outcome.status # 200 THEN NoneVal
    ELSE IF outcome.shape = "malformed" THEN RaiseVal
    ELSE outcome.text
get_gemini_response(outcome) ==
    IF outcome.kind = "exception" THEN NoneVal
    ELSE IF outcome.status # 200 THEN NoneVal
    ELSE IF outcome.shape = "malformed" THEN NoneVal
    ELSE outcome.text

\* Line 126: "not casual_response or not formal_response or not blended_response".
AnyResponseMissing(casual, formal, blended) == Not(casual) \/ Not(formal) \/ Not(blended)

\* jsonify({'error': msg}), status
JsonError(msg, status) == [NoResp EXCEPT !.status = status, !.error = msg]

\* An exception that leaves the view function: Flask answers 500 itself.
Unhandled == [NoResp EXCEPT !.status = 500, !.error = "Internal Server Error", !.handled = FALSE]

\* str(e) of the exceptions the handlers can meet.
DbErrorText == "psycopg2.Error"
TypeErrorText == "list indices must be integers or slices, not str"

\* The row INSERT ... RETURNING id creates (lines 133-137): id from the SERIAL
\* sequence, created_at from CURRENT_TIMESTAMP, pending until commit.
NewRow_Swapped(id, user_id, query, casual, formal, blended, at, r) ==
    [id |-> id, user_id |-> user_id, query |-> query, casual_response |-> formal,
     formal_response |-> casual, blended_response |-> blended, created_at |-> at,
     committed |-> FALSE, req |-> r]
NewRow(id, user_id, query, casual, formal, blended, at, r) ==
    [id |-> id, user_id |-> user_id, query |-> query, casual_response |-> casual,
     formal_response |-> formal, blended_response |-> blended, created_at |-> at,
     committed |-> FALSE, req |-> r]

\* conn.commit(): the pending row of request r becomes durable.
CommitRows(tbl, r) ==
    [i \in 1..Len(tbl) |-> IF tbl[i].req = r THEN [tbl[i] EXCEPT !.committed = TRUE] ELSE tbl[i]]

\* conn.close() without commit: the transaction of request r is rolled back.
RECURSIVE DropPending(_, _)
DropPending(tbl, r) ==
    IF tbl = <<>> THEN <<>>
    ELSE IF Head(tbl).req = r /\ ~Head(tbl).committed THEN DropPending(Tail(tbl), r)
    ELSE <<Head(tbl)>> \o DropPending(Tail(tbl), r)
Rollback_Keeps(tbl, r) == CommitRows(tbl, r)
Rollback(tbl, r) == DropPending(tbl, r)

\* Positions of the committed rows of a user: WHERE user_id = %s.
Matching(tbl, user_id) == { i \in 1..Len(tbl) : tbl[i].committed /\ tbl[i].user_id = user_id }

\* ORDER BY created_at DESC: every listing of the matching rows in which
\* created_at never increases.  SQL leaves the order of rows with equal
\* created_at open, so each such listing is a possible result.
Orderings(tbl, S) ==
    { f \in [1..Cardinality(S) -> S] :
        /\ \A i, j \in 1..Cardinality(S) : i # j => f[i] # f[j]
        /\ \A i, j \in 1..Cardinality(S) : i < j => tbl[f[i]].created_at >= tbl[f[j]].created_at }
SelectResults_Unordered(tbl, user_id) ==
    { [i \in 1..Cardinality(Matching(tbl, user_id)) |-> tbl[f[i]]] :
        f \in { g \in [1..Cardinality(Matching(tbl, user_id)) -> Matching(tbl, user_id)] :
                  \A i, j \in 1..Cardinality(Matching(tbl, user_id)) : i # j => g[i] # g[j] } }
SelectResults(tbl, user_id) ==
    { [i \in 1..Cardinality(Matching(tbl, user_id)) |-> tbl[f[i]]] :
        f \in Orderings(tbl, Matching(tbl, user_id)) }

\* datetime.isoformat() of a timestamp.
isoformat(t) == "T" \o ToString(t)

\* One element of the JSON array get_prompts returns (lines 180-187).
PromptJson(row) ==
    [id |-> row.id, query |-> row.query, casual_response |-> row.casual_response,
     formal_response |-> row.formal_response, blended_response |-> row.blended_response,
     created_at |-> isoformat(row.created_at)]

\* Committed rows of the table, in table order.
Committed(tbl) == SelectSeq(tbl, LAMBDA row : row.committed)

\* ---- initial state: server started, table created and empty --------------------
Init(n) ==
    /\ pool = n
    /\ handler = [w \in Workers |-> IdleFrame]
    /\ table = <<>>
    /\ seq = 0
    /\ now = 0
    /\ nreq = 0
    /\ ncommits = 0

\* The frame after the handler has returned response r.
Return(f, r) == [f EXCEPT !.pc = "done", !.resp = r]

\* Worker w's frame becomes f; nothing shared changes.
Local(w, f) ==
    /\ handler' = [handler EXCEPT ![w] = f]
    /\ UNCHANGED <<pool, table, seq, now, nreq, ncommits>>

\* Worker w is free to take a request.
Free(w) == handler[w].pc \in {"idle", "done"}

\* A request arrives and is given to the first free worker of the pool.
Receive(w, request) ==
    /\ w <= pool
    /\ Free(w)
    /\ \A v \in Workers : v < w => ~Free(v)
    /\ nreq < MaxRequests
    /\ nreq' = nreq + 1
    /\ handler' = [handler EXCEPT ![w] =
                      [IdleFrame EXCEPT !.pc = "validate", !.req = request, !.rid = nreq + 1]]
    /\ UNCHANGED <<pool, table, seq, now, ncommits>>

ReceivePost(w) ==
    \E data \in Bodies : Receive(w, [method |-> "POST", data |-> data, user_id |-> NoneVal])

ReceiveGet(w) ==
    \E u \in UserIdArgs : Receive(w, [method |-> "GET", data |-> NullBody, user_id |-> u])

\* The clock advances.
Tick ==
    /\ now < MaxClock
    /\ now' = now + 1
    /\ UNCHANGED <<pool, handler, table, seq, nreq, ncommits>>

\* ---- POST /prompt: create_prompt (lines 112-159) ----------------------------
\* Lines 115-119: parse the body and require the two keys.
CreateValidate(w) ==
    LET f == handler[w] IN
    /\ f.pc = "validate"
    /\ f.req.method = "POST"
    /\ Local(w, IF MissingFields(f.req.data)
                THEN Return(f, JsonError("Missing required fields", 400))
                ELSE [f EXCEPT !.pc = "generate"])

\* Lines 122-124: the next of the three get_gemini_response calls.  The
\* argument data['query'] is evaluated first; on a body that is not a dict it
\* raises and the outer "except Exception" (lines 157-159) answers 500.  The
\* same outer handler would answer an exception leaving get_gemini_response.
GeminiCall(w) ==
    LET f == handler[w]
        k == Len(f.results) + 1
    IN
    /\ f.pc = "generate"
    /\ IF ~Subscriptable(f.req.data)
       THEN Local(w, Return(f, JsonError(TypeErrorText, 500)))
       ELSE \E outcome \in Outcomes(PromptFor(Styles[k])) :
              LET v == get_gemini_response(outcome)
                  g == [f EXCEPT !.calls = Append(@, Payload(f.req.data.query, Styles[k]))]
              IN Local(w, IF v = RaiseVal
                          THEN Return(g, JsonError("Exception", 500))
                          ELSE [g EXCEPT !.results = Append(@, v),
                                         !.pc = IF k = Len(Styles) THEN "check" ELSE "generate"])

\* Lines 126-127: any missing response ends the request with 500.
CheckResponses(w) ==
    LET f == handler[w] IN
    /\ f.pc = "check"
    /\ Local(w, IF AnyResponseMissing(f.results[1], f.results[2], f.results[3])
                THEN Return(f, JsonError("Failed to get AI response", 500))
                ELSE [f EXCEPT !.pc = "connect"])

\* Lines 150-155: a storage step raised.  "except Exception" answers 500 with
\* str(e); "finally" closes the connection if one was opened, which rolls the
\* open transaction back.
CreateDbFail(w) ==
    LET f == handler[w] IN
    /\ handler' = [handler EXCEPT ![w] =
                      Return([f EXCEPT !.conn = IF @ = "open" THEN "closed" ELSE @],
                             JsonError(DbErrorText, 500))]
    /\ table' = Rollback(table, f.rid)

\* Line 131: conn = get_db_connection()
CreateConnect(w) ==
    /\ handler[w].pc = "connect"
    /\ \/ Local(w, [handler[w] EXCEPT !.conn = "open", !.pc = "cursor"])
       \/ CreateDbFail(w) /\ UNCHANGED <<pool, seq, now, nreq, ncommits>>

\* Line 132: cur = conn.cursor()
CreateCursor(w) ==
    /\ handler[w].pc = "cursor"
    /\ \/ Local(w, [handler[w] EXCEPT !.pc = "execute"])
       \/ CreateDbFail(w) /\ UNCHANGED <<pool, seq, now, nreq, ncommits>>

\* Lines 133-137: cur.execute(INSERT ... RETURNING id).  A failing statement
\* may or may not have drawn a value from the sequence already.
CreateExecute(w) ==
    LET f == handler[w]
        row == NewRow(seq + 1, f.req.data.user_id, f.req.data.query,
                      f.results[1], f.results[2], f.results[3], now, f.rid)
    IN
    /\ f.pc = "execute"
    /\ \/ /\ table' = Append(table, row)
          /\ seq' = seq + 1
          /\ handler' = [handler EXCEPT ![w] = [f EXCEPT !.cur = <<row>>, !.pc = "fetch"]]
          /\ UNCHANGED <<pool, now, nreq, ncommits>>
       \/ /\ CreateDbFail(w)
          /\ seq' \in {seq, seq + 1}
          /\ UNCHANGED <<pool, now, nreq, ncommits>>

\* Line 139: new_id = cur.fetchone()[0]
CreateFetch(w) ==
    /\ handler[w].pc = "fetch"
    /\ \/ Local(w, [handler[w] EXCEPT !.pc = "commit"])
       \/ CreateDbFail(w) /\ UNCHANGED <<pool, seq, now, nreq, ncommits>>

\* Lines 140-155: conn.commit(), cur.close(), the 200 response, and the
\* "finally" that closes the connection.
CreateCommit(w) ==
    LET f == handler[w] IN
    /\ f.pc = "commit"
    /\ \/ /\ table' = CommitRows(table, f.rid)
          /\ ncommits' = ncommits + 1
          /\ handler' = [handler EXCEPT ![w] =
                Return([f EXCEPT !.conn = "closed"],
                       [NoResp EXCEPT !.status = 200,
                                      !.id = f.cur[1].id,
                                      !.casual_response = f.results[1],
                                      !.formal_response = f.results[2],
                                      !.blended_response = f.results[3]])]
          /\ UNCHANGED <<pool, seq, now, nreq>>
       \/ CreateDbFail(w) /\ UNCHANGED <<pool, seq, now, nreq, ncommits>>

\* ---- GET /prompt: get_prompts (lines 161-189) --------------------------------
\* Lines 163-165: the user_id parameter must be present and non-empty.
ListValidate(w) ==
    LET f == handler[w] IN
    /\ f.pc = "validate"
    /\ f.req.method = "GET"
    /\ Local(w, IF Not(f.req.user_id)
                THEN Return(f, JsonError("Missing user_id parameter", 400))
                ELSE [f EXCEPT !.pc = "l_connect"])

\* A storage step of get_prompts raised: there is no try around lines 167-178,
\* so the exception leaves the view function and nothing closes the connection.
ListDbFail(w) == Local(w, Return(handler[w], Unhandled))

\* Line 167: conn = get_db_connection()
ListConnect(w) ==
    /\ handler[w].pc = "l_connect"
    /\ \/ Local(w, [handler[w] EXCEPT !.conn = "open", !.pc = "l_cursor"])
       \/ ListDbFail(w)

\* Line 168: cur = conn.cursor()
ListCursor(w) ==
    /\ handler[w].pc = "l_cursor"
    /\ \/ Local(w, [handler[w] EXCEPT !.pc = "l_execute"])
       \/ ListDbFail(w)

\* Lines 169-174: cur.execute(SELECT ... WHERE user_id = %s ORDER BY created_at DESC)
ListExecute(w) ==
    LET f == handler[w] IN
    /\ f.pc = "l_execute"
    /\ \/ \E rows \in SelectResults(table, f.req.user_id) :
             Local(w, [f EXCEPT !.cur = rows, !.snap = Committed(table), !.pc = "l_fetch"])
       \/ ListDbFail(w)

\* Lines 176-189: rows = cur.fetchall(), close cursor and connection, and the
\* JSON array built from the rows.
ListFetch(w) ==
    LET f == handler[w] IN
    /\ f.pc = "l_fetch"
    /\ \/ Local(w, Return([f EXCEPT !.conn = "closed"],
                          [NoResp EXCEPT !.status = 200,
                                         !.prompts = [i \in 1..Len(f.cur) |-> PromptJson(f.cur[i])]]))
       \/ ListDbFail(w)

Next ==
    \/ \E w \in Workers : ReceivePost(w)
    \/ \E w \in Workers : ReceiveGet(w)
    \/ \E w \in Workers : CreateValidate(w)
    \/ \E w \in Workers : GeminiCall(w)
    \/ \E w \in Workers : CheckResponses(w)
    \/ \E w \in Workers : CreateConnect(w)
    \/ \E w \in Workers : CreateCursor(w)
    \/ \E w \in Workers : CreateExecute(w)
    \/ \E w \in Workers : CreateFetch(w)
    \/ \E w \in Workers : CreateCommit(w)
    \/ \E w \in Workers : ListValidate(w)
    \/ \E w \in Workers : ListConnect(w)
    \/ \E w \in Workers : ListCursor(w)
    \/ \E w \in Workers : ListExecute(w)
    \/ \E w \in Workers : ListFetch(w)
    \/ Tick

\* One worker: requests are handled one after the other.
SpecSerial == Init(1) /\ [][Next]_vars

\* NumWorkers workers: handlers of different requests interleave.
SpecThreaded == Init(NumWorkers) /\ [][Next]_vars


\* ---- vocabulary of the properties ----------------------------------------------
\* Worker w has finished a POST (a GET) request.
DonePost(w) == handler[w].pc = "done" /\ handler[w].req.method = "POST"
DoneGet(w) == handler[w].pc = "done" /\ handler[w].req.method = "GET"

\* Positions of the rows request r inserted, and of those that are durable.
RowsOf(r) == { i \in 1..Len(table) : table[i].req = r }
StoredOf(r) == { i \in RowsOf(r) : table[i].committed }

\* The 500 answer of line 127.
FailedAI(r) == r.status = 500 /\ r.error = "Failed to get AI response" /\ r.handled

\* The 400 answer of line 119.
MissingAnswer(r) == r.status = 400 /\ r.error = "Missing required fields" /\ r.handled

\* The request of frame f issued generation calls and not all three of them
\* came back with a text.
GenerationFailed(f) ==
    /\ Len(f.calls) > 0
    /\ ~(Len(f.results) = 3 /\ \A k \in 1..3 : f.results[k] \notin {NoneVal, RaiseVal, ""})

\* C1: a validated POST in which a generation call failed is answered 500
\* 'Failed to get AI response' by the handler (the client returned a failure
\* value, no exception reached the handler) and stores no record.
C1_AllOrNothing ==
    \A w \in Workers :
        (DonePost(w) /\ ~MissingFields(handler[w].req.data) /\ GenerationFailed(handler[w]))
            => /\ FailedAI(handler[w].resp)
               /\ Len(handler[w].results) = 3
               /\ RowsOf(handler[w].rid) = {}
               /\ handler[w].conn = "none"

C1_Witness ==
    \E w \in Workers :
        /\ DonePost(w)
        /\ handler[w].results = <<"Hi!", "Hello.", NoneVal>>
        /\ FailedAI(handler[w].resp)
        /\ Len(table) > 0

\* C2: a POST answered 200 has added exactly one record, committed, holding the
\* request's user_id and query and the texts the casual, formal and blended
\* calls returned; the body carries that record's id and responses.
C2_SuccessStoresOneRecord ==
    \A w \in Workers :
        (DonePost(w) /\ handler[w].resp.status = 200)
            => LET f == handler[w] IN
               /\ Cardinality(RowsOf(f.rid)) = 1
               /\ \A i \in RowsOf(f.rid) :
                    /\ table[i].committed
                    /\ table[i].user_id = f.req.data.user_id
                    /\ table[i].query = f.req.data.query
                    /\ \A k \in 1..3 : f.calls[k].style = Styles[k]
                    /\ table[i].casual_response = f.results[1]
                    /\ table[i].formal_response = f.results[2]
                    /\ table[i].blended_response = f.results[3]
                    /\ f.resp.id = table[i].id
                    /\ f.resp.casual_response = table[i].casual_response
                    /\ f.resp.formal_response = table[i].formal_response
                    /\ f.resp.blended_response = table[i].blended_response

C2_Witness ==
    \E w \in Workers :
        /\ DonePost(w)
        /\ handler[w].resp.status = 200
        /\ handler[w].resp.id = 2
        /\ handler[w].resp.casual_response = "Hi!"
        /\ handler[w].resp.formal_response = "Hello."

\* The body is absent (request.json is None) or lacks one of the two keys.
LacksField(data) == data.kind = "null" \/ "user_id" \notin data.keys \/ "query" \notin data.keys

C4_EmptyFieldsRejected ==
    \A w \in Workers :
        (/\ DonePost(w)
         /\ handler[w].req.data.kind = "object"
         /\ handler[w].req.data.keys = RequiredKeys
         /\ (handler[w].req.data.user_id = "" \/ handler[w].req.data.query = ""))
            => /\ MissingAnswer(handler[w].resp)
               /\ handler[w].calls = <<>>
               /\ RowsOf(handler[w].rid) = {}

\* A GET with a non-empty user_id that the handler itself answered.
Listed(w) ==
    /\ DoneGet(w)
    /\ handler[w].req.user_id \notin {NoneVal, ""}
    /\ handler[w].resp.handled

\* Position, among the rows tbl, of the record with the given id.
RowWithId(tbl, id) == CHOOSE i \in 1..Len(tbl) : tbl[i].id = id

\* The records of the user among the rows the SELECT ran against.
Owned(f) == { i \in 1..Len(f.snap) : f.snap[i].user_id = f.req.user_id }

\* The answer of frame f is 200 and lists exactly the user's records, each once
\* and with its stored fields, in an order in which created_at never increases.
ListsOwnRecords(f) ==
    LET out == f.resp.prompts IN
    /\ f.resp.status = 200
    /\ Len(out) = Cardinality(Owned(f))
    /\ { out[i] : i \in 1..Len(out) } = { PromptJson(f.snap[i]) : i \in Owned(f) }
    /\ \A i, j \in 1..Len(out) :
         i < j => f.snap[RowWithId(f.snap, out[i].id)].created_at
                    >= f.snap[RowWithId(f.snap, out[j].id)].created_at

\* Records of equal created_at are listed in the order they were inserted.
TiesInInsertionOrder(f) ==
    LET out == f.resp.prompts IN
    \A i, j \in 1..Len(out) :
        (i < j /\ f.snap[RowWithId(f.snap, out[i].id)].created_at
                    = f.snap[RowWithId(f.snap, out[j].id)].created_at)
            => out[i].id < out[j].id

\* C5 (amended): a GET with a non-empty user_id whose storage steps succeed is
\* answered 200 with exactly the stored records of that user and none of
\* another user (an empty array when there are none), ordered by created_at
\* descending; the order of records with equal created_at is not determined.
C5_ListOrderedByCreatedAt ==
    \A w \in Workers :
        Listed(w) => /\ ListsOwnRecords(handler[w])
                     /\ pool = 1 => handler[w].snap = Committed(table)

\* C5 (as claimed): as above, and ties in created_at are broken by insertion order.
C5_TiesByInsertionOrder ==
    \A w \in Workers :
        Listed(w) => ListsOwnRecords(handler[w]) /\ TiesInInsertionOrder(handler[w])

C5_Witness ==
    \E w \in Workers :
        /\ Listed(w)
        /\ Len(handler[w].resp.prompts) = 2
        /\ handler[w].resp.prompts[1].created_at = handler[w].resp.prompts[2].created_at
        /\ handler[w].resp.prompts[1].id > handler[w].resp.prompts[2].id
        /\ Len(handler[w].snap) = 2

\* C6 (as claimed): once a request has finished, the storage connection it
\* opened is no longer open.
C6_ConnectionReleased ==
    \A w \in Workers : handler[w].pc = "done" => handler[w].conn # "open"

\* C7 (as claimed): no storage failure leaves a handler as an unhandled
\* exception; the handler answers it with 500 and the raw error text, and a
\* failed insert leaves no record of the request.
C7_StorageFailureHandled ==
    \A w \in Workers :
        handler[w].pc = "done"
            => /\ handler[w].resp.handled
               /\ handler[w].resp.error = DbErrorText
                    => handler[w].resp.status = 500 /\ StoredOf(handler[w].rid) = {}

\* Ids are distinct and increase in insertion order.
IdsIncrease == \A i, j \in 1..Len(table) : i < j => table[i].id < table[j].id

\* As many records are stored as inserts have been committed.
StoredCountsCommits == Cardinality({ i \in 1..Len(table) : table[i].committed }) = ncommits

\* The stored records: the committed rows of the table.
Stored(tbl) == { tbl[i] : i \in { j \in 1..Len(tbl) : tbl[j].committed } }

\* A step never modifies or removes a stored record, and the stored records
\* change only by one record, in the step in which a POST commits its insert.
AppendOnlyStep ==
    /\ Stored(table) \subseteq Stored(table')
    /\ Stored(table') # Stored(table)
         => /\ Cardinality(Stored(table')) = Cardinality(Stored(table)) + 1
            /\ \E w \in Workers :
                 /\ handler[w].pc = "commit"
                 /\ handler'[w].pc = "done"
                 /\ handler'[w].resp.status = 200
                 /\ \A row \in Stored(table') \ Stored(table) : row.req = handler[w].rid

\* C8: under any interleaving of the handlers the stored records are
\* append-only, their ids are distinct and increase in insertion order, and
\* their number is the number of committed inserts.
C8_AppendOnly == [](IdsIncrease /\ StoredCountsCommits) /\ [][AppendOnlyStep]_vars

\* Two inserts overlap: the later one is committed while the earlier one is
\* still pending, and another request has already failed in storage.
C8_Witness ==
    /\ Len(table) = 2
    /\ ~table[1].committed
    /\ table[2].committed
    /\ \E w \in Workers : handler[w].pc = "commit" /\ handler[w].rid = table[1].req
    /\ seq = 3

\* The request of frame f issued exactly the casual, the formal and the
\* blended call, in this order, each for the request's query.
ThreeCallsInOrder(f) ==
    /\ Len(f.calls) = 3
    /\ \A k \in 1..3 : f.calls[k].style = Styles[k] /\ f.calls[k].query = f.req.data.query
    /\ f.calls[1].prompt = "Respond in a casual and creative way"
    /\ f.calls[2].prompt = "Provide a formal response shortly"
    /\ f.calls[3].prompt = "Respond as a blend of both casual and formal styles"

\* C9 (as claimed): every POST that passes validation issues exactly three
\* generation calls, casual, formal, blended, one after the other and none
\* twice, and reaches storage only after the three have returned.
C9_ThreeSequentialCalls ==
    \A w \in Workers :
        /\ (DonePost(w) /\ ~MissingFields(handler[w].req.data)) => ThreeCallsInOrder(handler[w])
        /\ handler[w].conn # "none" /\ handler[w].req.method = "POST"
             => ThreeCallsInOrder(handler[w]) /\ Len(handler[w].results) = 3

\* C10: a call that returns 200 with an empty text makes the request fail like
\* any failed call, so no row of the table, pending or stored, has an empty
\* casual, formal or blended response.
C10_EmptyTextIsFailure ==
    /\ \A i \in 1..Len(table) :
         /\ table[i].casual_response # ""
         /\ table[i].formal_response # ""
         /\ table[i].blended_response # ""
    /\ \A w \in Workers :
         (DonePost(w) /\ \E k \in 1..Len(handler[w].results) : handler[w].results[k] = "")
            => FailedAI(handler[w].resp) /\ RowsOf(handler[w].rid) = {}

C10_Witness ==
    \E w \in Workers :
        /\ DonePost(w)
        /\ handler[w].results = <<"Hi!", "", "Hi there.">>
        /\ FailedAI(handler[w].resp)

====
